---------------------------- MODULE Spec2Model ----------------------------
(* serve-locally (index.js): resolution of a request path and query to a   *)
(* JSON file under a root directory, and the express middleware around it. *)
(* Strings are TLA+ strings; a score is kept in HALVES (twice the value    *)
(* the JavaScript holds), so that the 0.5 floor of fuzzyEqual is the       *)
(* integer 1, a whole match is 2 and the sentinel -1 is -2.                *)
EXTENDS Integers, Sequences, FiniteSets, TLC

VARIABLES tree, engine, call, logger, instances, requests, logged

vars == <<tree, engine, call, logger, instances, requests, logged>>

(***************************************************************************)
(* JavaScript strings                                                      *)
(***************************************************************************)

CharAt(s, i) == SubSeq(s, i, i)

\* s.indexOf(c), 1-based; 0 when c does not occur
IndexOf(s, c) ==
    IF \E i \in 1..Len(s) : CharAt(s, i) = c
    THEN CHOOSE i \in 1..Len(s) :
            CharAt(s, i) = c /\ \A j \in 1..(i - 1) : CharAt(s, j) # c
    ELSE 0

\* s.lastIndexOf(c), 1-based; 0 when c does not occur
LastIndexOf(s, c) ==
    IF \E i \in 1..Len(s) : CharAt(s, i) = c
    THEN CHOOSE i \in 1..Len(s) :
            CharAt(s, i) = c /\ \A j \in (i + 1)..Len(s) : CharAt(s, j) # c
    ELSE 0

\* s.split(c): always at least one piece ("".split("/") is [""])
RECURSIVE Split(_, _)
Split(s, c) ==
    LET i == IndexOf(s, c)
    IN  IF i = 0 THEN <<s>>
        ELSE <<SubSeq(s, 1, i - 1)>> \o Split(SubSeq(s, i + 1, Len(s)), c)

\* segs.join("/")
RECURSIVE JoinSlash(_)
JoinSlash(segs) ==
    IF Len(segs) = 0 THEN ""
    ELSE IF Len(segs) = 1 THEN segs[1]
    ELSE segs[1] \o "/" \o JoinSlash(Tail(segs))

(***************************************************************************)
(* Node's path module (posix)                                              *)
(***************************************************************************)

\* normalizeString: drops "" and "." segments and resolves ".."
RECURSIVE NormalizeSegs(_, _, _)
NormalizeSegs(segs, acc, allowAboveRoot) ==
    IF Len(segs) = 0 THEN acc
    ELSE LET s == Head(segs)
             next ==
                IF s = "" \/ s = "." THEN acc
                ELSE IF s = ".."
                     THEN IF Len(acc) > 0 /\ acc[Len(acc)] # ".."
                          THEN SubSeq(acc, 1, Len(acc) - 1)
                          ELSE IF allowAboveRoot THEN Append(acc, "..") ELSE acc
                     ELSE Append(acc, s)
         IN  NormalizeSegs(Tail(segs), next, allowAboveRoot)

\* the end of path.normalize: "." for an empty relative path, the trailing
\* separator and the leading one put back
Assemble(body, isAbsolute, trailing) ==
    IF isAbsolute
    THEN IF body # "" /\ trailing THEN "/" \o body \o "/" ELSE "/" \o body
    ELSE IF body = "" THEN (IF trailing THEN "./" ELSE ".")
    ELSE IF trailing THEN body \o "/" ELSE body

\* path.normalize(p)
Normalize(p) ==
    IF Len(p) = 0 THEN "."
    ELSE Assemble(JoinSlash(NormalizeSegs(Split(p, "/"), <<>>, CharAt(p, 1) # "/")),
                  CharAt(p, 1) = "/", CharAt(p, Len(p)) = "/")

\* path.join(a, b): empty arguments are skipped, the rest joined and normalized
pathJoin(a, b) ==
    IF a = "" /\ b = "" THEN "."
    ELSE IF a = "" THEN Normalize(b)
    ELSE IF b = "" THEN Normalize(a)
    ELSE Normalize(a \o "/" \o b)

\* path.parse, the name and the extension of a base name whose last dot is
\* at dot: no extension when there is no dot, when the only dot leads the
\* name (".hidden"), and for ".."
SplitExt(base, dot) ==
    IF dot <= 1 \/ base = ".."
    THEN [name |-> base, ext |-> ""]
    ELSE [name |-> SubSeq(base, 1, dot - 1), ext |-> SubSeq(base, dot, Len(base))]

\* path.parse, given the place of the last separator and the split base name
ParseAt(p, slash, ne) ==
    [root |-> IF Len(p) > 0 /\ CharAt(p, 1) = "/" THEN "/" ELSE "",
     dir  |-> IF slash = 0 THEN ""
              ELSE IF slash = 1 THEN "/"
              ELSE SubSeq(p, 1, slash - 1),
     base |-> SubSeq(p, slash + 1, Len(p)),
     ext  |-> ne.ext,
     name |-> ne.name]

BaseName(p) == SubSeq(p, LastIndexOf(p, "/") + 1, Len(p))

\* path.parse(p): {root, dir, base, ext, name}
pathParse(p) ==
    ParseAt(p, LastIndexOf(p, "/"), SplitExt(BaseName(p), LastIndexOf(BaseName(p), ".")))

\* path.format(obj): dir (or root) and base win over name and ext
pathFormat(obj) ==
    LET dir == IF obj.dir # "" THEN obj.dir ELSE obj.root
        base == IF obj.base # "" THEN obj.base ELSE obj.name \o obj.ext
    IN  IF dir = "" THEN base
        ELSE IF dir = obj.root THEN dir \o base
        ELSE dir \o "/" \o base

(***************************************************************************)
(* Node's querystring.parse: "k=v&k2=v2" to a mapping.  undefined and ""   *)
(* give the empty mapping.  The file names of the model repeat no key and  *)
(* hold no escape, so no array value and no decoding arises.               *)
(***************************************************************************)

Undefined == [tag |-> "undefined"]

Str(s) == [tag |-> "string", value |-> s]

EmptyQuery == [k \in {} |-> ""]

PairKey(piece) ==
    LET i == IndexOf(piece, "=")
    IN  IF i = 0 THEN piece ELSE SubSeq(piece, 1, i - 1)

PairValue(piece) ==
    LET i == IndexOf(piece, "=")
    IN  IF i = 0 THEN "" ELSE SubSeq(piece, i + 1, Len(piece))

\* the mapping of the non-empty pieces "k=v"
PairsToQuery(pieces) ==
    [k \in {PairKey(pieces[i]) : i \in {j \in 1..Len(pieces) : pieces[j] # ""}} |->
        PairValue(pieces[CHOOSE i \in 1..Len(pieces) :
                            /\ pieces[i] # "" /\ PairKey(pieces[i]) = k
                            /\ \A j \in 1..(i - 1) : PairKey(pieces[j]) # k])]

querystringParse(qs) ==
    IF qs.tag = "undefined" THEN EmptyQuery
    ELSE IF qs.value = "" THEN EmptyQuery
    ELSE PairsToQuery(Split(qs.value, "&"))

(***************************************************************************)
(* index.js: parseFilename and fuzzyEqual                                  *)
(***************************************************************************)

\* parseFilename(filename): filename is the JOINED path of the entry
\* (locateFilePath maps the listing through path.join first), and the
\* hidden test reads the first character of that path.
\* ret.nameStripped and ret.query, from ret.name.split("?")
WithQuery(ret, parts) ==
    [tag |-> "object",
     root |-> ret.root, dir |-> ret.dir, base |-> ret.base,
     ext |-> ret.ext, name |-> ret.name,
     nameStripped |-> parts[1],
     query |-> querystringParse(IF Len(parts) >= 2 THEN Str(parts[2]) ELSE Undefined)]

SplitName(ret) == WithQuery(ret, Split(ret.name, "?"))

parseFilename(filename) ==
    IF CharAt(filename, 1) = "." THEN Undefined
    ELSE SplitName(pathParse(filename))

\* a request's query: null/undefined, or an object of string values
Null == [tag |-> "null"]

Obj(params) == [tag |-> "object", params |-> params]

\* Object.keys(matching) == 0: the array is converted to a string (its
\* keys joined by ",") and that to a number; [] gives 0, and so does a
\* single key that spells zero ("", "0", "00").
KeysLooseEqualsZero(matching) ==
    \/ DOMAIN matching = {}
    \/ /\ Cardinality(DOMAIN matching) = 1
       /\ \A k \in DOMAIN matching : \A i \in 1..Len(k) : CharAt(k, i) = "0"

Excluded == -2

Floor == 1

\* the keys of actual the loop counts: present in matching with a truthy
\* (non-empty) value equal to the request's
Counted(actual, matching) ==
    {k \in DOMAIN actual :
        k \in DOMAIN matching /\ matching[k] # "" /\ matching[k] = actual[k]}

\* the keys of actual at which the loop returns -1
Clashing(actual, matching) ==
    {k \in DOMAIN actual :
        k \in DOMAIN matching /\ matching[k] # "" /\ matching[k] # actual[k]}

Max(a, b) == IF a > b THEN a ELSE b

\* the penalty, were its floor the integer 0
ShortestIntegerFloor(matchCount, nMatching, nActual) ==
    IF matchCount > 0 /\ nMatching > nActual
    THEN Max(2 * (matchCount - (nMatching - nActual)), 0)
    ELSE 2 * matchCount

\* "prefer the shortest item": the penalty for a candidate with more keys
\* than the request, in halves
Shortest(matchCount, nMatching, nActual) ==
    IF matchCount > 0 /\ nMatching > nActual
    THEN Max(2 * (matchCount - (nMatching - nActual)), Floor)
    ELSE 2 * matchCount

\* fuzzyEqual(actual, matching), in halves.  The loop leaves at the first
\* clashing key whatever the order of the keys, so the result is that of
\* the sets above.
fuzzyEqual(actual, matching) ==
    IF actual.tag = "null"
    THEN IF KeysLooseEqualsZero(matching) THEN 0 ELSE Excluded
    ELSE IF Clashing(actual.params, matching) # {} THEN Excluded
    ELSE Shortest(Cardinality(Counted(actual.params, matching)),
                  Cardinality(DOMAIN matching), Cardinality(DOMAIN actual.params))

(***************************************************************************)
(* Array.prototype.sort with the comparator (a, b) => a.count < b.count.   *)
(* The comparator answers true or false, that is 1 or 0 and never a        *)
(* negative number: it is not a consistent comparator, and the order the   *)
(* sort leaves is the engine's.  Both of V8's algorithms for short arrays  *)
(* are modelled: the insertion sort of V8 up to 6.x (Node up to 10) and    *)
(* the TimSort of V8 7.0 and later (Node 11 and later).                    *)
(***************************************************************************)

comparefn(a, b) == IF a.count < b.count THEN 1 ELSE 0

\* the inner loop of InsertionSort: where element lands in the sorted prefix
RECURSIVE ShiftPos(_, _, _)
ShiftPos(a, element, j) ==
    IF j >= 1 /\ comparefn(a[j], element) > 0
    THEN ShiftPos(a, element, j - 1)
    ELSE j

\* a with a[i] moved to stand right after a[j], j < i
MoveTo(a, i, j) ==
    SubSeq(a, 1, j) \o <<a[i]>> \o SubSeq(a, j + 1, i - 1) \o SubSeq(a, i + 1, Len(a))

RECURSIVE InsertionSortFrom(_, _)
InsertionSortFrom(a, i) ==
    IF i > Len(a) THEN a
    ELSE InsertionSortFrom(MoveTo(a, i, ShiftPos(a, a[i], i - 1)), i + 1)

InsertionSort(a) == InsertionSortFrom(a, 2)

\* TimSort, CountAndMakeRun: the length of the run that starts the array
RECURSIVE RunLength(_, _, _)
RunLength(a, idx, isDescending) ==
    IF idx > Len(a) THEN Len(a)
    ELSE IF isDescending = (comparefn(a[idx], a[idx - 1]) >= 0) THEN idx - 1
    ELSE RunLength(a, idx + 1, isDescending)

Reverse(a) == [i \in 1..Len(a) |-> a[Len(a) + 1 - i]]

\* TimSort, BinaryInsertionSort: the place of pivot in a[left+1..right]
RECURSIVE BinaryPlace(_, _, _, _)
BinaryPlace(a, pivot, left, right) ==
    IF left < right
    THEN IF comparefn(pivot, a[left + ((right - left) \div 2) + 1]) < 0
         THEN BinaryPlace(a, pivot, left, left + ((right - left) \div 2))
         ELSE BinaryPlace(a, pivot, left + ((right - left) \div 2) + 1, right)
    ELSE left

RECURSIVE BinaryInsertionSort(_, _)
BinaryInsertionSort(a, start) ==
    IF start > Len(a) THEN a
    ELSE BinaryInsertionSort(MoveTo(a, start, BinaryPlace(a, a[start], 0, start - 1)),
                             start + 1)

\* a descending run is reversed in place; binary insertion takes the rest
MakeRun(a, run, isDescending) ==
    BinaryInsertionSort(IF isDescending
                        THEN Reverse(SubSeq(a, 1, run)) \o SubSeq(a, run + 1, Len(a))
                        ELSE a,
                        run + 1)

\* an array shorter than the minimum run is one run, extended by binary
\* insertion; no merge happens
TimSort(a) ==
    IF Len(a) < 2 THEN a
    ELSE MakeRun(a, RunLength(a, 3, comparefn(a[2], a[1]) < 0),
                 comparefn(a[2], a[1]) < 0)

Engines == {"insertion", "timsort"}

arraySort(a, sortEngine) ==
    IF sortEngine = "insertion" THEN InsertionSort(a) ELSE TimSort(a)

(***************************************************************************)
(* The file system under the root.  A tree maps a directory, named by the  *)
(* sequence of entry names that leads to it from the root, to its listing  *)
(* in the order readdir enumerates it.  A position is the string the code  *)
(* holds together with the directory the operating system resolves it to.  *)
(***************************************************************************)

Entry(name, kind) == [name |-> name, kind |-> kind]

\* fs.readdirSync(position)
readdirSync(fsTree, node) == [i \in 1..Len(fsTree[node]) |-> fsTree[node][i].name]

\* fs.statSync(path.join(position, name)), for a name the listing holds
Stats(e) == [isDirectory |-> e.kind = "dir", isFile |-> e.kind = "file"]

statSync(fsTree, node, name) ==
    Stats(CHOOSE e \in {fsTree[node][i] : i \in 1..Len(fsTree[node])} : e.name = name)

Thrown == [tag |-> "throw"]

\* files.find((file) => file == pathFragment)
find(files, pathFragment) ==
    IF \E i \in 1..Len(files) : files[i] = pathFragment
    THEN Str(files[CHOOSE i \in 1..Len(files) :
                    files[i] = pathFragment /\ \A j \in 1..(i - 1) : files[j] # pathFragment])
    ELSE Undefined

\* match, were it to settle for the first entry when none equals the fragment
matchOrFirst(pathFragment, node, fsTree) ==
    IF find(readdirSync(fsTree, node), pathFragment).tag # "undefined"
    THEN find(readdirSync(fsTree, node), pathFragment)
    ELSE IF Len(readdirSync(fsTree, node)) > 0 THEN Str(readdirSync(fsTree, node)[1])
    ELSE Thrown

\* match(pathFragment, currentDirectory): the entry equal to the fragment,
\* or a thrown Error
match(pathFragment, node, fsTree) ==
    IF find(readdirSync(fsTree, node), pathFragment).tag = "undefined" THEN Thrown
    ELSE find(readdirSync(fsTree, node), pathFragment)

\* one turn of the while loop, after match found directory: the new
\* position and the check that it is a directory
RECURSIVE Walk(_, _, _)
Descend(path, position, directory, fsTree) ==
    IF ~statSync(fsTree, position.node, directory).isDirectory THEN Thrown
    ELSE Walk(Tail(path),
              [str |-> pathJoin(position.str, directory),
               node |-> Append(position.node, directory)],
              fsTree)

Matched(path, position, directory, fsTree) ==
    IF directory.tag = "throw" THEN Thrown
    ELSE Descend(path, position, directory.value, fsTree)

\* the while loop of locateFilePath: consumes all but the last segment
Walk(path, position, fsTree) ==
    IF Len(path) > 1
    THEN Matched(path, position, match(Head(path), position.node, fsTree), fsTree)
    ELSE [tag |-> "ok", position |-> position, path |-> path]

NoPath == ""

\* the listing of position as joined paths, plain files only
plainFiles(position, fsTree) ==
    LET IsFile(f) == statSync(fsTree, position.node, f).isFile
        Joined(names) == [i \in 1..Len(names) |-> pathJoin(position.str, names[i])]
    IN  Joined(SelectSeq(readdirSync(fsTree, position.node), IsFile))

\* files.map(parseFilename).filter((x) => x)
parsedFiles(paths) ==
    LET Kept(x) == x.tag = "object"
    IN  SelectSeq([i \in 1..Len(paths) |-> parseFilename(paths[i])], Kept)

\* the files whose stripped name is the last segment, each with its count
scoredMatches(files, leaf, queryParams) ==
    LET NameMatches(f) == f.nameStripped = leaf
        Scored(potential) ==
            [i \in 1..Len(potential) |->
                [item |-> potential[i],
                 count |-> fuzzyEqual(queryParams, potential[i].query)]]
    IN  Scored(SelectSeq(files, NameMatches))

\* .filter((m) => m.count != -1).sort((a, b) => a.count < b.count)
rankedMatches(scored, sortEngine) ==
    LET NotExcluded(m) == m.count # Excluded
    IN  arraySort(SelectSeq(scored, NotExcluded), sortEngine)

\* what locateFilePath returns, with the two lists it built on its way:
\* files (the entries parseFilename kept) and matches (potentialMatches
\* after the filter and the sort)
Returned(files, potentialMatches) ==
    IF Len(potentialMatches) > 0
    THEN [kind |-> "path", path |-> pathFormat(potentialMatches[1].item),
          files |-> files, matches |-> potentialMatches]
    ELSE [kind |-> "undefined", path |-> NoPath,
          files |-> files, matches |-> potentialMatches]

Ranked(files, leaf, queryParams, sortEngine) ==
    Returned(files, rankedMatches(scoredMatches(files, leaf, queryParams), sortEngine))

Located(walk, queryParams, fsTree, sortEngine) ==
    IF walk.tag = "throw"
    THEN [kind |-> "throw", path |-> NoPath, files |-> <<>>, matches |-> <<>>]
    ELSE Ranked(parsedFiles(plainFiles(walk.position, fsTree)),
                walk.path[Len(walk.path)], queryParams, sortEngine)

\* locateFilePath(path, queryParams, root): a path, undefined or a thrown
\* Error
locateFilePath(path, queryParams, root, fsTree, sortEngine) ==
    Located(Walk(Split(IF Len(path) > 0 /\ CharAt(path, 1) = "/"
                       THEN SubSeq(path, 2, Len(path)) ELSE path, "/"),
                 [str |-> root, node |-> <<>>], fsTree),
            queryParams, fsTree, sortEngine)

(***************************************************************************)
(* Inputs                                                                  *)
(***************************************************************************)

MaxFiles == 3

\* file names a response directory may hold (the leaf is "r")
FileNames ==
    {"r.j", "r?a=1.j", "r?a=1&b=2.j", "r?a=1&b=x.j", "r?a=.j", ".r.j",
     "r?a=1&x=1.j", "r?a=1&b=2&y=8&z=9.j"}

\* the listings of up to MaxFiles distinct files, in every enumeration order
Listings ==
    LET orders == UNION {[1..n -> FileNames] : n \in 0..MaxFiles}
        NoRepeat(l) == \A i, j \in 1..Len(l) : i # j => l[i] # l[j]
    IN  {[i \in 1..Len(l) |-> Entry(l[i], "file")] : l \in {k \in orders : NoRepeat(k)}}

\* the root holds the directory d, the plain file f and two responses; d
\* holds up to MaxFiles files in any enumeration order
RootListing ==
    <<Entry("d", "dir"), Entry("f", "file"), Entry(".r.j", "file"), Entry("r.j", "file")>>

MkTree(listing) == (<<>> :> RootListing) @@ (<<"d">> :> listing)

Trees == {MkTree(l) : l \in Listings}

Paths == {"/d/r", "/d/.r", "d/r", "/r", "/.r", "/x/r", "/f/r"}

Queries ==
    {Null, Obj(EmptyQuery), Obj([a |-> "1"]), Obj([a |-> ""]),
     Obj([a |-> "1", b |-> "2"])}

Roots == {".", "m", "../m"}

(***************************************************************************)
(* locateFilePath as an operation on its own (it is exported)              *)
(***************************************************************************)

NoCall ==
    [done |-> FALSE, path |-> "", query |-> Null, root |-> ".",
     outcome |-> [kind |-> "undefined", path |-> NoPath, files |-> <<>>, matches |-> <<>>]]

Init ==
    /\ tree \in Trees
    /\ engine \in Engines
    /\ call = NoCall
    /\ logger = "noop"
    /\ instances = <<>>
    /\ requests = <<>>
    /\ logged = {}

\* one synchronous call of locateFilePath
LocateCall(path, queryParams, root) ==
    /\ ~call.done
    /\ call' = [done |-> TRUE, path |-> path, query |-> queryParams, root |-> root,
                outcome |-> locateFilePath(path, queryParams, root, tree, engine)]
    /\ UNCHANGED <<tree, engine, logger, instances, requests, logged>>

\* the caller drops the result: nothing of a call outlives it
Discard ==
    /\ call.done
    /\ call' = NoCall
    /\ UNCHANGED <<tree, engine, logger, instances, requests, logged>>

Next ==
    \/ \E path \in Paths, q \in Queries, root \in Roots : LocateCall(path, q, root)
    \/ Discard

Spec == Init /\ [][Next]_vars

(***************************************************************************)
(* serveLocally(opts) and the middleware it returns.  logger is the        *)
(* module's variable (let logger = () => {}), shared by every instance.    *)
(***************************************************************************)

MaxInstances == 2

MaxRequests == 2

\* opts.logger: absent, one of two functions, or true (console.log)
LoggerOpts == {"none", "fn1", "fn2", "true"}

\* opts.root: absent (the root is then "."), or a directory
RootOpts == {"none", "m"}

\* the module's logger after serveLocally(opts)
setLogger(current, opt) ==
    IF opt \in {"fn1", "fn2"} THEN opt
    ELSE IF opt = "true" THEN "console"
    ELSE current

\* serveLocally(opts): sets the module's logger, fixes the root and returns
\* the middleware
ServeLocally(loggerOpt, rootOpt) ==
    /\ Len(instances) < MaxInstances
    /\ logger' = setLogger(logger, loggerOpt)
    /\ instances' = Append(instances,
                           [root |-> IF rootOpt # "none" THEN rootOpt ELSE ".",
                            logger |-> loggerOpt])
    /\ UNCHANGED <<tree, engine, call, requests, logged>>

\* try { filePath = locateFilePath(...) } catch(err) {}: undefined when the
\* call threw
tryLocate(path, queryParams, root, fsTree, sortEngine) ==
    locateFilePath(path, queryParams, root, fsTree, sortEngine)

\* a request as the middleware left it: the outcome of the lookup, the file
\* being read, and the calls made of next() and res.json()
Handled(inst, located) ==
    IF located.kind # "path"
    THEN [instance |-> inst, located |-> located.kind, filePath |-> NoPath,
          pc |-> "done", read |-> "none", nextCalls |-> 1, jsonCalls |-> 0]
    ELSE [instance |-> inst, located |-> located.kind, filePath |-> located.path,
          pc |-> "reading", read |-> "none", nextCalls |-> 0, jsonCalls |-> 0]

\* the logger calls of the middleware: none once a file path is at hand
LoggedNoMatch(inst, located, current) ==
    IF located.kind # "path"
    THEN {[instance |-> inst, logger |-> current, what |-> "Could not find match for"]}
    ELSE {}

\* the middleware of instance inst on a request: up to fs.readFile
Middleware(inst, path, queryParams) ==
    /\ Len(requests) < MaxRequests
    /\ requests' = Append(requests,
            Handled(inst, tryLocate(path, queryParams, instances[inst].root, tree, engine)))
    /\ logged' = logged \cup
            LoggedNoMatch(inst, tryLocate(path, queryParams, instances[inst].root, tree, engine),
                          logger)
    /\ UNCHANGED <<tree, engine, call, logger, instances>>

\* what fs.readFile hands its callback: an error, text that is not JSON,
\* or JSON text
ReadResults == {"err", "garbage", "json"}

\* the callback, were the return after the parse error's next() missing
AfterReadFallsThrough(req, result) ==
    IF result = "err"
    THEN [req EXCEPT !.pc = "done", !.read = result, !.nextCalls = @ + 1]
    ELSE IF result = "garbage"
    THEN [req EXCEPT !.pc = "done", !.read = result, !.nextCalls = @ + 1,
                     !.jsonCalls = @ + 1]
    ELSE [req EXCEPT !.pc = "done", !.read = result, !.jsonCalls = @ + 1]

\* the callback of fs.readFile on a request
AfterRead(req, result) ==
    IF result = "err"
    THEN [req EXCEPT !.pc = "done", !.read = result, !.nextCalls = @ + 1]
    ELSE IF result = "garbage"
    THEN [req EXCEPT !.pc = "done", !.read = result, !.nextCalls = @ + 1]
    ELSE [req EXCEPT !.pc = "done", !.read = result, !.jsonCalls = @ + 1]

LoggedAfterRead(req, result, current) ==
    IF result = "err" THEN {}
    ELSE IF result = "garbage"
    THEN {[instance |-> req.instance, logger |-> current, what |-> "Could not parse json from"]}
    ELSE {[instance |-> req.instance, logger |-> current, what |-> "Responding with data from"]}

ReadFileCallback(r, result) ==
    /\ r \in DOMAIN requests
    /\ requests[r].pc = "reading"
    /\ requests' = [requests EXCEPT ![r] = AfterRead(requests[r], result)]
    /\ logged' = logged \cup LoggedAfterRead(requests[r], result, logger)
    /\ UNCHANGED <<tree, engine, call, logger, instances>>

\* the directory d holds one response, for the query a=1
MiddlewareTree == MkTree(<<Entry("r?a=1.j", "file")>>)

MiddlewarePaths == {"/d/r", "/x/r"}

MiddlewareQueries == {Obj(EmptyQuery), Obj([a |-> "1"]), Obj([a |-> "2"])}

MiddlewareInit ==
    /\ tree = MiddlewareTree
    /\ engine \in Engines
    /\ call = NoCall
    /\ logger = "noop"
    /\ instances = <<>>
    /\ requests = <<>>
    /\ logged = {}

MiddlewareNext ==
    \/ \E loggerOpt \in LoggerOpts, rootOpt \in RootOpts : ServeLocally(loggerOpt, rootOpt)
    \/ \E inst \in DOMAIN instances, path \in MiddlewarePaths, q \in MiddlewareQueries :
          Middleware(inst, path, q)
    \/ \E r \in 1..MaxRequests, result \in ReadResults : ReadFileCallback(r, result)

\* the event loop runs the callback of every read it started
MiddlewareSpec ==
    /\ MiddlewareInit
    /\ [][MiddlewareNext]_vars
    /\ \A r \in 1..MaxRequests : WF_vars(\E result \in ReadResults : ReadFileCallback(r, result))

(***************************************************************************)
(* The vocabulary of the properties, read off the tree and the request     *)
(* rather than off the lists locateFilePath builds.                        *)
(***************************************************************************)

\* the segments of a request path
Segments(path) ==
    Split(IF Len(path) > 0 /\ CharAt(path, 1) = "/" THEN SubSeq(path, 2, Len(path)) ELSE path,
          "/")

LeafOf(segs) == segs[Len(segs)]

\* the directory the intermediate segments name
TerminalOf(segs) == SubSeq(segs, 1, Len(segs) - 1)

\* every intermediate segment names a subdirectory exactly
Resolves(segs) == \A i \in 1..(Len(segs) - 1) : SubSeq(segs, 1, i) \in DOMAIN tree

\* the names of the plain files of a directory
PlainNames(node) ==
    {tree[node][i].name : i \in {j \in 1..Len(tree[node]) : tree[node][j].kind = "file"}}

IsHidden(name) == CharAt(name, 1) = "."

\* a file name taken apart: stripped name, extension and encoded query
NameOf(name) == SplitName(pathParse(name))

\* the candidates for a request path: the plain, non-hidden files of the
\* terminal directory whose stripped name is the leaf
Candidates(segs) ==
    {n \in PlainNames(TerminalOf(segs)) : ~IsHidden(n) /\ NameOf(n).nameStripped = LeafOf(segs)}

\* root joined with the segments and the file's full name
ExpectedPath(root, segs, name) == pathJoin(root, JoinSlash(Append(TerminalOf(segs), name)))

QueryEq(p, q) == DOMAIN p = DOMAIN q /\ \A k \in DOMAIN p : p[k] = q[k]

HasParams(q) == q.tag = "object" /\ DOMAIN q.params # {}

NoParams(q) == q.tag = "null" \/ DOMAIN q.params = {}

\* a root under which no joined path begins with a dot
OrdinaryRoot(root) == ~IsHidden(pathJoin(root, "x"))

MatchSet == {call.outcome.matches[i] : i \in 1..Len(call.outcome.matches)}

FileSet == {call.outcome.files[i] : i \in 1..Len(call.outcome.files)}

\* the entry of matches that was returned
ReturnedMatch == CHOOSE m \in MatchSet : pathFormat(m.item) = call.outcome.path

Found == call.done /\ call.outcome.kind = "path"

(***************************************************************************)
(* C1                                                                      *)
(***************************************************************************)

\* C1: with no query (null) and every intermediate segment naming a
\* subdirectory, a request whose leaf is the stripped name of an existing
\* plain file gets the path of that file, for any root.  Stated on the
\* narrowest reading: the file is not hidden and encodes no query.
C1_FindsPlainFile ==
    LET segs == Segments(call.path)
    IN  (/\ call.done
         /\ call.query.tag = "null"
         /\ Resolves(segs)
         /\ \E n \in Candidates(segs) : DOMAIN NameOf(n).query = {})
        => /\ call.outcome.kind = "path"
           /\ \E n \in Candidates(segs) :
                 /\ DOMAIN NameOf(n).query = {}
                 /\ call.outcome.path = ExpectedPath(call.root, segs, n)

(***************************************************************************)
(* C2                                                                      *)
(***************************************************************************)

\* C2: when the request has a query parameter and a candidate's parsed
\* query equals the request's parameters exactly, that candidate is
\* returned, whatever else the directory holds and in whatever order.
\* Stated for ordinary roots and non-empty request values, the cases the
\* other defects of the lookup leave alone.
C2_ExactQueryWins ==
    LET segs == Segments(call.path)
    IN  (/\ call.done
         /\ HasParams(call.query)
         /\ \A k \in DOMAIN call.query.params : call.query.params[k] # ""
         /\ OrdinaryRoot(call.root)
         /\ Resolves(segs)
         /\ \E n \in Candidates(segs) : QueryEq(NameOf(n).query, call.query.params))
        => /\ call.outcome.kind = "path"
           /\ QueryEq(ReturnedMatch.item.query, call.query.params)

(***************************************************************************)
(* C3                                                                      *)
(***************************************************************************)

\* C3: for every listing order the file returned is a non-excluded
\* candidate whose score is the greatest among the non-excluded
\* name-matching candidates.
C3_ReturnsMaxScore ==
    Found => /\ ReturnedMatch.count # Excluded
             /\ \A m \in MatchSet : m.count <= ReturnedMatch.count

(***************************************************************************)
(* C4                                                                      *)
(***************************************************************************)

\* C4: a candidate that encodes a key of the request with a different
\* value (an empty encoded value included) is never returned.
C4_NeverMismatchedValue ==
    (Found /\ call.query.tag = "object")
    => \A k \in DOMAIN call.query.params \cap DOMAIN ReturnedMatch.item.query :
          ReturnedMatch.item.query[k] = call.query.params[k]

(***************************************************************************)
(* C5                                                                      *)
(***************************************************************************)

\* C5: when the request carries no query parameter, the mapping absent or
\* empty, every candidate that encodes a query is excluded and the others
\* score 0; with only query-encoding files the result is NoMatch.
C5_NoQueryExcludesEncoded ==
    (call.done /\ NoParams(call.query) /\ call.outcome.kind # "throw")
    => /\ \A m \in MatchSet : DOMAIN m.item.query = {} /\ m.count = 0
       /\ (\A f \in FileSet :
              f.nameStripped = LeafOf(Segments(call.path)) => DOMAIN f.query # {})
             => call.outcome.kind = "undefined"

(***************************************************************************)
(* C6                                                                      *)
(***************************************************************************)

\* the files that survive the name filter and the scoring
Survivors(segs, queryParams, root) ==
    {n \in PlainNames(TerminalOf(segs)) :
        /\ NameOf(n).nameStripped = LeafOf(segs)
        /\ fuzzyEqual(queryParams, NameOf(n).query) # Excluded
        /\ parseFilename(ExpectedPath(root, segs, n)).tag = "object"}

Answers(q) == q.nextCalls + q.jsonCalls

\* what holds of every request at every moment
C7_Safe ==
    \A r \in DOMAIN requests :
        /\ Answers(requests[r]) <= 1
        /\ requests[r].pc = "done" => Answers(requests[r]) = 1
        /\ requests[r].jsonCalls = 1 =>
              requests[r].located = "path" /\ requests[r].read = "json"
        /\ requests[r].located \in {"throw", "undefined"} => requests[r].nextCalls = 1
        /\ requests[r].read \in {"err", "garbage"} => requests[r].nextCalls = 1

\* C7: for every request exactly one of next() and res.json(data) is
\* eventually called, once: res.json only for a file located, read and
\* parsed, next() on a lookup error, no match, a read error or a parse
\* error; and a request that was answered is touched by no other.
C7_ExactlyOneResponse ==
    /\ []C7_Safe
    /\ [][\A r \in DOMAIN requests :
            requests[r].pc = "done" => requests'[r] = requests[r]]_vars
    /\ \A r \in 1..MaxRequests :
          (r \in DOMAIN requests) ~> (r \in DOMAIN requests /\ Answers(requests[r]) = 1)

\* one request was answered with res.json and another fell through on a
\* parse error
C7_Witness ==
    \E r1, r2 \in DOMAIN requests :
        /\ requests[r1].pc = "done" /\ requests[r1].jsonCalls = 1
        /\ requests[r2].pc = "done" /\ requests[r2].read = "garbage"
        /\ requests[r2].nextCalls = 1

(***************************************************************************)
(* C8                                                                      *)
(***************************************************************************)

\* C8: an entry of the terminal directory is dropped from the candidates
\* if and only if its own name begins with a dot, whatever the root and
\* the directories above it.
C8_HiddenIffOwnName ==
    (call.done /\ call.outcome.kind # "throw")
    => {f.base : f \in FileSet}
          = {n \in PlainNames(TerminalOf(Segments(call.path))) : ~IsHidden(n)}

(***************************************************************************)
(* C9                                                                      *)
(***************************************************************************)

\* the request keys a candidate encodes with the request's value
EqualKeys(m) ==
    {k \in DOMAIN call.query.params \cap DOMAIN m.item.query :
        m.item.query[k] = call.query.params[k]}

\* the keys a candidate encodes and the request does not carry
ExtraKeys(m) == DOMAIN m.item.query \ DOMAIN call.query.params

CountedKeys(m) == Counted(call.query.params, m.item.query)

OverSpecific(m) == Cardinality(DOMAIN m.item.query) > Cardinality(DOMAIN call.query.params)

ConfiguredLogger(opt) ==
    IF opt = "none" THEN "noop" ELSE IF opt = "true" THEN "console" ELSE opt

\* C10: a request handled by an instance invokes only the logger that
\* instance was configured with, and none if it was configured with none,
\* whatever instances were created before or after it.
C10_OwnLoggerOnly ==
    \A l \in logged : l.logger = ConfiguredLogger(instances[l.instance].logger)

=============================================================================
